---------------------------- MODULE Spec2Model ----------------------------
(***************************************************************************)
(* A model of cssselect2's selector parser (src/pdf/cssselect2/parser.py). *)
(* The parser is a pure function of a token sequence, a namespace mapping  *)
(* and two flags; parse() is a generator, modelled as a state machine      *)
(* whose steps are the first selector parse and the iterations of its      *)
(* comma loop.  Every other function is an operator on (tokens, position). *)
(***************************************************************************)
EXTENDS Integers, Sequences, FiniteSets, TLC

VARIABLES
    origin,      \* how the input was composed (kept only to state the claims)
    tokens,      \* parse(input): the component values handed to TokenStream
    namespaces,  \* parse(namespaces=...)
    forgiving,   \* parse(forgiving=...)
    relative,    \* parse(relative=...)
    pc,          \* "first" | "loop" | "done" | "error": where the generator is
    pos,         \* TokenStream: index of the next unconsumed token
    produced,    \* the selectors yielded so far
    error,       \* the exception that ended the generator, NoError otherwise
    last,        \* what the latest step did: "none" | "yield" | "fail" | "skip"
    trail,       \* a yielded branch was followed by a token that is no comma
    qres         \* SpecQN: the result of parse_qualified_name on the input

vars == <<origin, tokens, namespaces, forgiving, relative, pc, pos, produced,
          error, last, trail, qres>>

RECURSIVE SkipLoop(_, _, _, _)
RECURSIVE CommentLoop(_, _, _)
RECURSIVE CompoundLoop(_, _, _, _, _)
RECURSIVE SelectorLoop(_, _, _, _, _, _, _)
RECURSIVE ParseLoop(_, _, _, _, _)
RECURSIVE ParseSelector(_, _, _, _)
RECURSIVE ParseCompoundSelector(_, _, _)
RECURSIVE ParseSimpleSelector(_, _, _)
RECURSIVE ParseLogicalCombination(_, _, _)
RECURSIVE ParseAll(_, _, _, _)
RECURSIVE Specificity(_)
RECURSIVE MaxSpecificity(_)
RECURSIVE SumSpecificity(_)

--------------------------------------------------------------------------
(* Python's None: the absent namespace, the absent pseudo-element, the     *)
(* `None` key of the namespace mapping.                                    *)
Null == "<None>"

(* Tokens are tinycss2 component values.  Every token carries the same     *)
(* fields; `content` is the nested token list of a [] block or the         *)
(* arguments of a function, `lower` the case-folded value.                 *)
Tok(type, value, lower, isid, content) ==
    [type |-> type, value |-> value, lower |-> lower,
     is_identifier |-> isid, content |-> content]

(* The None that TokenStream.next() and peek() return at the end.          *)
NoTok == Tok("EOF", "", "", FALSE, <<>>)

Lit(v) == Tok("literal", v, v, FALSE, <<>>)
Ident(v) == Tok("ident", v, v, FALSE, <<>>)
IdentL(v, l) == Tok("ident", v, l, FALSE, <<>>)
Hash(v, isid) == Tok("hash", v, v, isid, <<>>)
Str(v) == Tok("string", v, v, FALSE, <<>>)
WS == Tok("whitespace", " ", " ", FALSE, <<>>)
Comment == Tok("comment", "", "", FALSE, <<>>)
Block(content) == Tok("[] block", "", "", FALSE, content)
Func(name, args) == Tok("function", name, name, FALSE, args)

(* `token == 's'`: tinycss2 compares only literal tokens with strings.     *)
Is(t, s) == t.type = "literal" /\ t.value = s

IsIn(t, S) == t.type = "literal" /\ t.value \in S

SUPPORTED_PSEUDO_ELEMENTS ==
    {"first-line", "first-letter", "prefix", "postfix", "selection",
     "target-text", "spelling-error", "grammar-error", "before", "after",
     "marker", "placeholder", "file-selector-button",
     "footnote-call", "footnote-marker", "content", "shadow"}

--------------------------------------------------------------------------
(* TokenStream                                                             *)

Peek(toks, p) == IF p <= Len(toks) THEN toks[p] ELSE NoTok

(* The position after next(): the exhausted iterator stays exhausted.      *)
Advance(toks, p) == IF p <= Len(toks) THEN p + 1 ELSE p

(* One iteration of the loop of TokenStream.skip.                          *)
SkipIter(toks, p, skip_types) ==
    LET peek == Peek(toks, p)
    IN  IF peek = NoTok \/ peek.type \notin skip_types
        THEN [done |-> TRUE, pos |-> p]
        ELSE [done |-> FALSE, pos |-> Advance(toks, p)]

SkipLoop(toks, p, skip_types, found) ==
    LET it == SkipIter(toks, p, skip_types)
    IN  IF it.done
        THEN [found |-> found, pos |-> p]
        ELSE SkipLoop(toks, it.pos, skip_types, TRUE)

Skip(toks, p, skip_types) == SkipLoop(toks, p, skip_types, FALSE)

SkipWhitespace(toks, p) == Skip(toks, p, {"whitespace"})

SkipComment(toks, p) == Skip(toks, p, {"comment"})

SkipWhitespaceAndComment(toks, p) == Skip(toks, p, {"comment", "whitespace"})

--------------------------------------------------------------------------
(* Results of the parsing functions.  kind is "ok", "none" (the function   *)
(* returned None), "SelectorError" or "AttributeError"; an error keeps the *)
(* offending token and the position the stream was left at.                *)

SelectorError(tok, p) == [kind |-> "SelectorError", tok |-> tok, pos |-> p]

(* `next.type` evaluated on None: Python raises AttributeError.            *)
AttributeError(p) == [kind |-> "AttributeError", tok |-> NoTok, pos |-> p]

IsError(r) == r.kind \in {"SelectorError", "AttributeError"}

(* namespaces.get(key): None when the key is absent.                       *)
NsGet(ns, key) == IF key \in DOMAIN ns THEN ns[key] ELSE Null

(* The local name of a qualified name: (value, lower_value), or <<>> for   *)
(* the None that denotes a wildcard.                                       *)
Wildcard == <<>>

LocalOf(tok) == <<tok.value, tok.lower>>

QName(namespace, local, p) ==
    [kind |-> "ok", namespace |-> namespace, local |-> local, pos |-> p]

(* A variant of LocalNameAfterBar that lets an attribute name end in a     *)
(* wildcard: C9 does not hold of it.                                       *)
LocalNameAfterBarAny(toks, p, namespace, is_attribute) ==
    LET next == Peek(toks, p)
        p1 == Advance(toks, p)
    IN  IF next = NoTok THEN AttributeError(p1)
        ELSE IF next.type = "ident" THEN QName(namespace, LocalOf(next), p1)
        ELSE IF Is(next, "*") THEN QName(namespace, Wildcard, p1)
        ELSE SelectorError(next, p1)

(* The tail of parse_qualified_name: `|` was just consumed, p is the       *)
(* position after it.                                                      *)
LocalNameAfterBar(toks, p, namespace, is_attribute) ==
    LET next == Peek(toks, p)
        p1 == Advance(toks, p)
    IN  IF next = NoTok THEN AttributeError(p1)
        ELSE IF next.type = "ident" THEN QName(namespace, LocalOf(next), p1)
        ELSE IF Is(next, "*") /\ ~is_attribute
             THEN QName(namespace, Wildcard, p1)
        ELSE SelectorError(next, p1)

ParseQualifiedName(toks, p, ns, is_attribute) ==
    LET peek == Peek(toks, p)
        p1 == Advance(toks, p)
        peek1 == Peek(toks, p1)
        p2 == Advance(toks, p1)
    IN  IF peek = NoTok THEN [kind |-> "none", pos |-> p]
        ELSE IF peek.type = "ident" THEN
            IF ~Is(peek1, "|")
            THEN QName(IF is_attribute THEN "" ELSE NsGet(ns, Null),
                       LocalOf(peek), p1)
            ELSE IF NsGet(ns, peek.value) = Null
                 THEN SelectorError(peek, p2)
                 ELSE LocalNameAfterBar(toks, p2, NsGet(ns, peek.value),
                                        is_attribute)
        ELSE IF Is(peek, "*") THEN
            IF ~Is(peek1, "|")
            THEN IF is_attribute
                 THEN SelectorError(peek, p1)
                 ELSE QName(NsGet(ns, Null), Wildcard, p1)
            ELSE LocalNameAfterBar(toks, p2, Null, is_attribute)
        ELSE IF Is(peek, "|") THEN
            LocalNameAfterBar(toks, p1, "", is_attribute)
        ELSE [kind |-> "none", pos |-> p]

--------------------------------------------------------------------------
(* The selector tree and its specificity.                                  *)

LocalNameSelector(local_name) ==
    [kind |-> "LocalNameSelector", local_name |-> local_name[1],
     lower_local_name |-> local_name[2]]

NamespaceSelector(namespace) ==
    [kind |-> "NamespaceSelector", namespace |-> namespace]

IDSelector(ident) == [kind |-> "IDSelector", ident |-> ident]

ClassSelector(class_name) ==
    [kind |-> "ClassSelector", class_name |-> class_name]

AttributeSelector(namespace, name, operator, value) ==
    [kind |-> "AttributeSelector", namespace |-> namespace,
     name |-> name[1], lower_name |-> name[2],
     operator |-> operator, value |-> value]

PseudoClassSelector(name) == [kind |-> "PseudoClassSelector", name |-> name]

FunctionalPseudoClassSelector(name, arguments) ==
    [kind |-> "FunctionalPseudoClassSelector", name |-> name,
     arguments |-> arguments]

NegationSelector(selector_list) ==
    [kind |-> "NegationSelector", selector_list |-> selector_list]

RelationalSelector(selector_list) ==
    [kind |-> "RelationalSelector", selector_list |-> selector_list]

MatchesAnySelector(selector_list) ==
    [kind |-> "MatchesAnySelector", selector_list |-> selector_list]

SpecificityAdjustmentSelector(selector_list) ==
    [kind |-> "SpecificityAdjustmentSelector",
     selector_list |-> selector_list]

CompoundSelector(simple_selectors) ==
    [kind |-> "CompoundSelector", simple_selectors |-> simple_selectors]

CombinedSelector(left, combinator, right) ==
    [kind |-> "CombinedSelector", left |-> left, combinator |-> combinator,
     right |-> right]

RelativeSelector(combinator, selector) ==
    [kind |-> "RelativeSelector", combinator |-> combinator,
     selector |-> selector]

Add3(x, y) == <<x[1] + y[1], x[2] + y[2], x[3] + y[3]>>

(* Python's tuple order, which max() uses.                                 *)
TupleLess(x, y) ==
    \/ x[1] < y[1]
    \/ x[1] = y[1] /\ x[2] < y[2]
    \/ x[1] = y[1] /\ x[2] = y[2] /\ x[3] < y[3]

TupleMax(x, y) == IF TupleLess(x, y) THEN y ELSE x

(* CombinedSelector.specificity                                            *)
CombinedSpecificity(left, right) == Add3(left, right)

(* The specificity of the simple selector classes, a class attribute each. *)
SimpleSpecificity(kind) ==
    CASE kind = "LocalNameSelector" -> <<0, 0, 1>>
      [] kind = "NamespaceSelector" -> <<0, 0, 0>>
      [] kind = "IDSelector" -> <<1, 0, 0>>
      [] kind = "ClassSelector" -> <<0, 1, 0>>
      [] kind = "AttributeSelector" -> <<0, 1, 0>>
      [] kind = "PseudoClassSelector" -> <<0, 1, 0>>
      [] kind = "FunctionalPseudoClassSelector" -> <<0, 1, 0>>

(* max(selector.specificity for selector in selector_list)                 *)
MaxSpecificity(selector_list) ==
    IF Len(selector_list) = 1
    THEN Specificity(selector_list[1])
    ELSE TupleMax(Specificity(selector_list[1]),
                  MaxSpecificity(Tail(selector_list)))

(* CompoundSelector.specificity: the component-wise sum over the members.  *)
SumSpecificity(simple_selectors) ==
    IF simple_selectors = <<>>
    THEN <<0, 0, 0>>
    ELSE Add3(Specificity(simple_selectors[1]),
              SumSpecificity(Tail(simple_selectors)))

(* A variant of ListSpecificity in which :where() counts like :is(): C8    *)
(* does not hold of it.                                                    *)
ListSpecificityCounted(kind, selector_list) ==
    IF selector_list = <<>> THEN <<0, 0, 0>>
    ELSE MaxSpecificity(selector_list)

(* The specificity of the list-carrying pseudo-classes.                    *)
ListSpecificity(kind, selector_list) ==
    IF kind = "SpecificityAdjustmentSelector" THEN <<0, 0, 0>>
    ELSE IF selector_list = <<>> THEN <<0, 0, 0>>
    ELSE MaxSpecificity(selector_list)

Specificity(node) ==
    CASE node.kind = "Selector" -> node.specificity
      [] node.kind = "RelativeSelector" -> node.selector.specificity
      [] node.kind = "CombinedSelector" ->
            CombinedSpecificity(Specificity(node.left),
                                Specificity(node.right))
      [] node.kind = "CompoundSelector" ->
            SumSpecificity(node.simple_selectors)
      [] node.kind \in {"NegationSelector", "RelationalSelector",
                        "MatchesAnySelector",
                        "SpecificityAdjustmentSelector"} ->
            ListSpecificity(node.kind, node.selector_list)
      [] OTHER -> SimpleSpecificity(node.kind)

(* Selector.__init__: the specificity is computed once and stored.         *)
SelectorSpecificity(tree_specificity, pseudo_element) ==
    IF pseudo_element = Null
    THEN tree_specificity
    ELSE <<tree_specificity[1], tree_specificity[2], tree_specificity[3] + 1>>

Selector(tree, pseudo_element) ==
    [kind |-> "Selector", parsed_tree |-> tree,
     pseudo_element |-> pseudo_element,
     specificity |-> SelectorSpecificity(Specificity(tree), pseudo_element)]

(* The pseudo_element attribute of a Selector or a RelativeSelector.       *)
PseudoElementOf(selector) ==
    IF selector.kind = "RelativeSelector"
    THEN selector.selector.pseudo_element
    ELSE selector.pseudo_element

--------------------------------------------------------------------------
(* The parsing functions.                                                  *)

ATTRIBUTE_OPERATORS == {"=", "~=", "|=", "^=", "$=", "*="}

LEGACY_PSEUDO_ELEMENTS == {"before", "after", "first-line", "first-letter"}

LOGICAL_COMBINATIONS == {"is", "where", "not", "has"}

(* parse_attribute_selector, on the stream of the [] block's content.      *)
(* The caller's stream is untouched: the result carries no position.       *)
ParseAttributeSelector(toks, ns) ==
    LET p0 == SkipWhitespace(toks, 1).pos
        qualified_name == ParseQualifiedName(toks, p0, ns, TRUE)
        p1 == SkipWhitespace(toks, qualified_name.pos).pos
        peek == Peek(toks, p1)
        has_operator == IsIn(peek, ATTRIBUTE_OPERATORS)
        p2 == SkipWhitespace(toks, Advance(toks, p1)).pos
        value_tok == Peek(toks, p2)
        p3 == IF has_operator THEN Advance(toks, p2) ELSE p1
        p4 == SkipWhitespace(toks, p3).pos
        closing == Peek(toks, p4)
    IN  IF qualified_name.kind = "none"
        THEN SelectorError(Peek(toks, p0), Advance(toks, p0))
        ELSE IF IsError(qualified_name) THEN qualified_name
        ELSE IF peek # NoTok /\ ~has_operator
             THEN SelectorError(peek, p1)
        ELSE IF has_operator /\ value_tok.type \notin {"ident", "string"}
             THEN SelectorError(value_tok, Advance(toks, p2))
        ELSE IF closing # NoTok
             THEN SelectorError(closing, Advance(toks, p4))
        ELSE [kind |-> "ok",
              sel |-> AttributeSelector(
                          qualified_name.namespace,
                          qualified_name.local,
                          IF has_operator THEN peek.value ELSE Null,
                          IF has_operator THEN value_tok.value ELSE Null)]

(* parse_type_selector: `found` is FALSE when it returns None.             *)
ParseTypeSelector(toks, p, ns) ==
    LET p0 == SkipWhitespace(toks, p).pos
        qualified_name == ParseQualifiedName(toks, p0, ns, FALSE)
    IN  IF qualified_name.kind = "none"
        THEN [kind |-> "ok", found |-> FALSE, sels |-> <<>>, pos |-> p0]
        ELSE IF IsError(qualified_name) THEN qualified_name
        ELSE [kind |-> "ok", found |-> TRUE,
              sels |-> (IF qualified_name.local # Wildcard
                        THEN <<LocalNameSelector(qualified_name.local)>>
                        ELSE <<>>)
                       \o (IF qualified_name.namespace # Null
                           THEN <<NamespaceSelector(qualified_name.namespace)>>
                           ELSE <<>>),
              pos |-> qualified_name.pos]

(* What parse_simple_selector returns: (simple_selector, pseudo_element);  *)
(* `has` is FALSE when the simple selector is None.                        *)
NoSelector == [kind |-> "None"]

Simple(sel, p) ==
    [kind |-> "ok", has |-> TRUE, sel |-> sel, pseudo_element |-> Null,
     pos |-> p]

PseudoElement(name, p) ==
    [kind |-> "ok", has |-> FALSE, sel |-> NoSelector,
     pseudo_element |-> name, pos |-> p]

Neither(p) ==
    [kind |-> "ok", has |-> FALSE, sel |-> NoSelector,
     pseudo_element |-> Null, pos |-> p]

(* An error raised while parsing a nested stream leaves the caller's       *)
(* stream where the caller had it.                                         *)
At(r, p) == IF r.kind = "ok" THEN Simple(r.sel, p) ELSE [r EXCEPT !.pos = p]

ParseSimpleSelector(toks, p, ns) ==
    LET peek == Peek(toks, p)
        p1 == Advance(toks, p)
        next == Peek(toks, p1)
        p2 == Advance(toks, p1)
        next2 == Peek(toks, p2)
        p3 == Advance(toks, p2)
    IN  IF peek = NoTok THEN Neither(p)
        ELSE IF peek.type = "hash" /\ peek.is_identifier
             THEN Simple(IDSelector(peek.value), p1)
        ELSE IF Is(peek, ".") THEN
            IF next = NoTok \/ next.type # "ident"
            THEN SelectorError(next, p2)
            ELSE Simple(ClassSelector(next.value), p2)
        ELSE IF peek.type = "[] block"
             THEN At(ParseAttributeSelector(peek.content, ns), p1)
        ELSE IF Is(peek, ":") THEN
            IF Is(next, ":") THEN
                IF next2 = NoTok \/ next2.type # "ident"
                THEN SelectorError(next2, p3)
                ELSE IF next2.lower \notin SUPPORTED_PSEUDO_ELEMENTS
                     THEN SelectorError(next2, p3)
                     ELSE PseudoElement(next2.lower, p3)
            ELSE IF next # NoTok /\ next.type = "ident" THEN
                IF next.lower \in LEGACY_PSEUDO_ELEMENTS
                THEN PseudoElement(next.lower, p2)
                ELSE Simple(PseudoClassSelector(next.lower), p2)
            ELSE IF next # NoTok /\ next.type = "function" THEN
                IF next.lower \in LOGICAL_COMBINATIONS
                THEN At(ParseLogicalCombination(next, ns, next.lower), p2)
                ELSE Simple(FunctionalPseudoClassSelector(next.lower,
                                                          next.content), p2)
            ELSE SelectorError(next, p2)
        ELSE Neither(p)

(* The selector class parse_logical_combination picks for each name.       *)
LogicalSelector(name, selectors) ==
    CASE name = "is" -> MatchesAnySelector(selectors)
      [] name = "where" -> SpecificityAdjustmentSelector(selectors)
      [] name = "not" -> NegationSelector(selectors)
      [] name = "has" -> RelationalSelector(selectors)

(* A variant of LogicalForgiving in which no logical combination forgives: *)
(* an invalid :not() inside :is() then fails the parse, and C2 as amended  *)
(* does not hold of it.                                                    *)
LogicalForgivingNever(name) == FALSE

(* forgiving, as parse_logical_combination sets it                         *)
LogicalForgiving(name) == name # "not"

(* relative, as parse_logical_combination sets it                          *)
LogicalRelative(name) == name = "has"

NoPseudoElement(selector) == PseudoElementOf(selector) = Null

(* Lines 179-183: the selectors without a pseudo-element, wrapped; an      *)
(* exception of the nested parse() passes through.                         *)
LogicalResult(name, parsed) ==
    IF IsError(parsed) THEN parsed
    ELSE [kind |-> "ok",
          sel |-> LogicalSelector(
                      name, SelectSeq(parsed.sels, NoPseudoElement))]

ParseLogicalCombination(matches_any_token, ns, name) ==
    LogicalResult(name,
                  ParseAll(matches_any_token.content, ns,
                           LogicalForgiving(name), LogicalRelative(name)))

(* Lines 89-91: what the loop of parse_compound_selector does with the     *)
(* result r of parse_simple_selector.                                      *)
CompoundStep(simple_selectors, r) ==
    IF IsError(r) THEN [done |-> TRUE, kind |-> r.kind, res |-> r]
    ELSE IF r.pseudo_element # Null \/ ~r.has
         THEN [done |-> TRUE, kind |-> "ok", res |-> r,
               simple_selectors |-> simple_selectors, pos |-> r.pos]
    ELSE [done |-> FALSE, kind |-> "ok", res |-> r,
          simple_selectors |-> Append(simple_selectors, r.sel),
          pos |-> r.pos]

(* One iteration of the loop of parse_compound_selector.                   *)
CompoundIter(toks, p, ns, simple_selectors) ==
    CompoundStep(simple_selectors, ParseSimpleSelector(toks, p, ns))

(* Lines 93-98, after the iteration `it` that left the loop.               *)
CompoundResult(toks, found, it) ==
    IF it.kind # "ok" THEN it.res
    ELSE IF it.simple_selectors # <<>> \/ found
            \/ it.res.pseudo_element # Null
         THEN [kind |-> "ok",
               sel |-> CompoundSelector(it.simple_selectors),
               pseudo_element |-> it.res.pseudo_element,
               pos |-> it.pos]
    ELSE SelectorError(Peek(toks, it.pos), it.pos)

CompoundNext(toks, ns, found, it) ==
    IF it.done THEN CompoundResult(toks, found, it)
    ELSE CompoundLoop(toks, it.pos, ns, it.simple_selectors, found)

CompoundLoop(toks, p, ns, simple_selectors, found) ==
    CompoundNext(toks, ns, found, CompoundIter(toks, p, ns, simple_selectors))

(* Lines 85-98, given what parse_type_selector returned.                   *)
CompoundAfterType(toks, ns, type_selectors) ==
    IF IsError(type_selectors) THEN type_selectors
    ELSE CompoundLoop(toks, type_selectors.pos, ns, type_selectors.sels,
                      type_selectors.found)

ParseCompoundSelector(toks, p, ns) ==
    CompoundAfterType(toks, ns, ParseTypeSelector(toks, p, ns))

COMBINATORS == {">", "+", "~"}

(* `while tokens.skip_comment(): has_whitespace = skip_whitespace() or ..` *)
CommentLoop(toks, p, has_whitespace) ==
    LET c == SkipComment(toks, p)
        w == SkipWhitespace(toks, c.pos)
    IN  IF c.found
        THEN CommentLoop(toks, w.pos, w.found \/ has_whitespace)
        ELSE [has_whitespace |-> has_whitespace, pos |-> c.pos]

(* The selector the loop of parse_selector builds on every iteration.      *)
WrapSelector(relative_, initial_combinator, result, pseudo_element) ==
    IF relative_
    THEN RelativeSelector(initial_combinator, Selector(result, pseudo_element))
    ELSE Selector(result, pseudo_element)

Returned(selector, p) ==
    [done |-> TRUE, kind |-> "ok",
     res |-> [kind |-> "ok", sel |-> selector, pos |-> p]]

(* A variant of Combine that nests to the right: C7 does not hold of it.   *)
CombineRight(result, combinator, compound) ==
    IF IsError(compound)
    THEN [done |-> TRUE, kind |-> compound.kind, res |-> compound]
    ELSE [done |-> FALSE, kind |-> "ok", pos |-> compound.pos,
          result |-> CombinedSelector(compound.sel, combinator, result),
          pseudo_element |-> compound.pseudo_element]

(* Lines 79-80: the next compound is folded into the tree.                 *)
Combine(result, combinator, compound) ==
    IF IsError(compound)
    THEN [done |-> TRUE, kind |-> compound.kind, res |-> compound]
    ELSE [done |-> FALSE, kind |-> "ok", pos |-> compound.pos,
          result |-> CombinedSelector(result, combinator, compound.sel),
          pseudo_element |-> compound.pseudo_element]

(* A variant of Returns that goes on after a pseudo-element: C6 does not   *)
(* hold of it.                                                             *)
ReturnsOnlyAtEnd(pseudo_element, peek, has_whitespace) ==
    \/ peek = NoTok
    \/ Is(peek, ",")
    \/ ~IsIn(peek, COMBINATORS) /\ ~has_whitespace

(* Lines 67-78: whether the loop of parse_selector returns, given the      *)
(* pseudo-element, the peeked token and whether whitespace was skipped.    *)
Returns(pseudo_element, peek, has_whitespace) ==
    \/ pseudo_element # Null
    \/ peek = NoTok
    \/ Is(peek, ",")
    \/ ~IsIn(peek, COMBINATORS) /\ ~has_whitespace

(* One iteration of the loop of parse_selector, entered at position p with *)
(* the tree `result` and the pseudo-element of the latest compound.        *)
SelectorIter(toks, p, ns, relative_, initial_combinator, result, pseudo_element) ==
    LET w == SkipWhitespace(toks, p)
        s == CommentLoop(toks, w.pos, w.found)
        peek == Peek(toks, s.pos)
        explicit == IsIn(peek, COMBINATORS)
    IN  IF Returns(pseudo_element, peek, s.has_whitespace)
        THEN Returned(WrapSelector(relative_, initial_combinator, result,
                                   pseudo_element), s.pos)
        ELSE Combine(result, IF explicit THEN peek.value ELSE " ",
                     ParseCompoundSelector(
                         toks,
                         IF explicit THEN Advance(toks, s.pos) ELSE s.pos,
                         ns))

SelectorNext(toks, ns, relative_, initial_combinator, it) ==
    IF it.done THEN it.res
    ELSE SelectorLoop(toks, it.pos, ns, relative_, initial_combinator,
                      it.result, it.pseudo_element)

SelectorLoop(toks, p, ns, relative_, initial_combinator, result, pseudo_element) ==
    SelectorNext(toks, ns, relative_, initial_combinator,
                 SelectorIter(toks, p, ns, relative_, initial_combinator,
                              result, pseudo_element))

(* Lines 59-80, given what the first parse_compound_selector returned.     *)
SelectorAfterFirst(toks, ns, relative_, initial_combinator, first) ==
    IF IsError(first) THEN first
    ELSE SelectorLoop(toks, first.pos, ns, relative_, initial_combinator,
                      first.sel, first.pseudo_element)

ParseSelector(toks, p, ns, relative_) ==
    LET p0 == SkipWhitespaceAndComment(toks, p).pos
        peek == Peek(toks, p0)
        leading == relative_ /\ IsIn(peek, COMBINATORS)
        initial_combinator == IF leading THEN peek.value ELSE " "
        p1 == IF ~relative_ THEN p0
              ELSE SkipWhitespaceAndComment(
                       toks, IF leading THEN Advance(toks, p0) ELSE p0).pos
    IN  SelectorAfterFirst(toks, ns, relative_, initial_combinator,
                           ParseCompoundSelector(toks, p1, ns))

--------------------------------------------------------------------------
(* parse(): the generator's state is (pc, pos, produced, error); `last`    *)
(* names what the latest step did.                                         *)

NoError == [kind |-> "none", tok |-> NoTok, pos |-> 0]

ParseState(pc_, pos_, produced_, error_, last_) ==
    [pc |-> pc_, pos |-> pos_, produced |-> produced_, error |-> error_,
     last |-> last_]

(* What `yield parse_selector(...)` inside try/except does to the state,   *)
(* r being what parse_selector returned or raised: `swallow` is where the  *)
(* except clause leaves the generator in forgiving mode.                   *)
Yield(forgiving_, st, swallow, r) ==
    IF r.kind = "ok"
    THEN ParseState("loop", r.pos, Append(st.produced, r.sel), NoError,
                    "yield")
    ELSE IF r.kind = "SelectorError" /\ forgiving_
         THEN ParseState(swallow, r.pos, st.produced, NoError, "fail")
    ELSE ParseState("error", r.pos, st.produced, r, "fail")

TryBranch(toks, ns, forgiving_, relative_, st, p, swallow) ==
    Yield(forgiving_, st, swallow, ParseSelector(toks, p, ns, relative_))

(* Lines 28-33: the first selector of the list.                            *)
FirstStep(toks, ns, forgiving_, relative_) ==
    TryBranch(toks, ns, forgiving_, relative_,
              ParseState("first", 1, <<>>, NoError, "none"), 1, "done")

(* A variant of LoopStep in which forgiving parsing ends at a stray token: *)
(* C3 as amended does not hold of it.                                      *)
LoopStepEnding(toks, ns, forgiving_, relative_, st) ==
    LET next == Peek(toks, st.pos)
        p1 == Advance(toks, st.pos)
    IN  IF next = NoTok
        THEN ParseState("done", p1, st.produced, NoError, "end")
        ELSE IF Is(next, ",")
             THEN TryBranch(toks, ns, forgiving_, relative_, st, p1, "loop")
        ELSE IF ~forgiving_
             THEN ParseState("error", p1, st.produced,
                             SelectorError(next, p1), "unexpected")
        ELSE ParseState("done", p1, st.produced, NoError, "skip")

(* Lines 34-46: one iteration of `while 1`.                                *)
LoopStep(toks, ns, forgiving_, relative_, st) ==
    LET next == Peek(toks, st.pos)
        p1 == Advance(toks, st.pos)
    IN  IF next = NoTok
        THEN ParseState("done", p1, st.produced, NoError, "end")
        ELSE IF Is(next, ",")
             THEN TryBranch(toks, ns, forgiving_, relative_, st, p1, "loop")
        ELSE IF ~forgiving_
             THEN ParseState("error", p1, st.produced,
                             SelectorError(next, p1), "unexpected")
        ELSE ParseState("loop", p1, st.produced, NoError, "skip")

ParseLoop(toks, ns, forgiving_, relative_, st) ==
    IF st.pc \in {"done", "error"} THEN st
    ELSE ParseLoop(toks, ns, forgiving_, relative_,
                   LoopStep(toks, ns, forgiving_, relative_, st))

(* parse() run to its end, as the list comprehension of                    *)
(* parse_logical_combination consumes it: the selectors, or the exception. *)
Outcome(st) ==
    IF st.pc = "error" THEN st.error
    ELSE [kind |-> "ok", sels |-> st.produced]

ParseAll(toks, ns, forgiving_, relative_) ==
    Outcome(ParseLoop(toks, ns, forgiving_, relative_,
                      FirstStep(toks, ns, forgiving_, relative_)))

--------------------------------------------------------------------------
(* The inputs.  An input is composed from small pools of token sequences:  *)
(* a comma-separated list of branches, a chain of compounds joined by      *)
(* combinators, or one logical pseudo-class around a list of branches.     *)

MaxBranches == 3

MaxCompounds == 3

MaxArgs == 2

MaxNameLen == 3

SeqsUpTo(S, lo, hi) == UNION {[1..n -> S] : n \in lo..hi}

RECURSIVE Join(_, _)
(* The branches, a `sep` token between any two of them.                    *)
Join(branches, sep) ==
    IF branches = <<>> THEN <<>>
    ELSE IF Len(branches) = 1 THEN branches[1]
    ELSE branches[1] \o <<sep>> \o Join(Tail(branches), sep)

RECURSIVE Chain(_, _)
(* c1 s1 c2 s2 ... cn                                                      *)
Chain(compounds, seps) ==
    IF Len(compounds) = 1 THEN compounds[1]
    ELSE compounds[1] \o seps[1] \o Chain(Tail(compounds), Tail(seps))

SvgNamespaces == [p \in {"svg"} |-> "http://www.w3.org/2000/svg"]

DefaultNamespaces ==
    [p \in {Null, "svg"} |->
        IF p = Null THEN "http://www.w3.org/1999/xhtml"
        ELSE "http://www.w3.org/2000/svg"]

NoNamespaces == [p \in {} |-> ""]

ClassA == <<Lit("."), Ident("a")>>

IdB == <<Hash("b", TRUE)>>

PseudoBefore == <<Ident("a"), Lit(":"), Lit(":"), IdentL("BEFORE", "before")>>

LegacyAfter == <<Hash("b", TRUE), Lit(":"), Ident("after")>>

Rich ==
    <<Ident("svg"), Lit("|"), Ident("rect"), Hash("b", TRUE),
      Block(<<WS, Ident("x"), Lit("~="), Str("v"), WS>>),
      Lit(":"), Ident("hover"), Lit(":"), Func("lang", <<Ident("en")>>)>>

(* Branches of a top-level list: two that parse, one that fails on its     *)
(* first token, one that fails after consuming the token that follows it,  *)
(* one that parses and is followed by a stray token, one that ends at a    *)
(* namespace separator, one that parses to a pseudo-element.               *)
ListPool ==
    {ClassA, <<WS>> \o IdB \o <<WS>>, <<Lit("?")>>, <<Lit(".")>>,
     ClassA \o <<Lit("!")>>, <<Lit("|")>>, PseudoBefore}

CompoundPool == {<<Ident("a")>>, ClassA, PseudoBefore, LegacyAfter}

(* Combinators as they are written: with and without whitespace and        *)
(* comments around them.                                                   *)
SepPool ==
    {<<WS>>, <<WS, Lit(">"), WS>>, <<Lit("+")>>, <<Comment, WS, Lit("~")>>,
     <<WS, Comment, WS>>}

(* Branches of the argument list of a logical pseudo-class.                *)
ArgPool ==
    {ClassA, Rich, <<Lit("?")>>, PseudoBefore,
     <<Lit(":"), Func("not", <<Lit("?")>>)>>,
     <<Lit(":"), Func("not", ClassA \o <<Lit(","), WS>> \o IdB)>>,
     <<Lit(">"), WS, Ident("a"), WS, Ident("a")>>, <<Lit("|")>>}

(* Tokens of a qualified name and around it.                               *)
NameTokens ==
    {Ident("a"), Ident("svg"), Ident("foo"), Lit("*"), Lit("|"), Lit(".")}

(* The inputs of each family, by length.                                   *)
ListInputs(n) ==
    {[family |-> "list", branches |-> b] : b \in [1..n -> ListPool]}

ChainInputs(n) ==
    {[family |-> "chain", compounds |-> c, seps |-> s] :
        c \in [1..n -> CompoundPool], s \in [1..(n - 1) -> SepPool]}

NestedInputs(n) ==
    {[family |-> "nested", name |-> name, args |-> a] :
        name \in LOGICAL_COMBINATIONS, a \in [1..n -> ArgPool]}

(* The token sequence an input stands for.                                 *)
TokensOf(o) ==
    CASE o.family = "list" -> Join(o.branches, Lit(","))
      [] o.family = "chain" -> Chain(o.compounds, o.seps)
      [] o.family = "nested" ->
            <<Lit(":"), Func(o.name, Join(o.args, Lit(",")))>>

--------------------------------------------------------------------------
(* The state machine of parse().                                           *)

Init ==
    /\ \/ /\ \E n \in 1..MaxBranches : origin \in ListInputs(n)
          /\ forgiving \in BOOLEAN
          /\ relative = FALSE
       \/ /\ \E n \in 1..MaxCompounds : origin \in ChainInputs(n)
          /\ forgiving = FALSE
          /\ relative \in BOOLEAN
       \/ /\ \E n \in 0..MaxArgs : origin \in NestedInputs(n)
          /\ forgiving \in BOOLEAN
          /\ relative = FALSE
    /\ tokens = TokensOf(origin)
    /\ namespaces = SvgNamespaces
    /\ pc = "first"
    /\ pos = 1
    /\ produced = <<>>
    /\ error = NoError
    /\ last = "none"
    /\ trail = FALSE
    /\ qres = NoError

(* The generator moves to state st.                                        *)
Become(st) ==
    /\ pc' = st.pc
    /\ pos' = st.pos
    /\ produced' = st.produced
    /\ error' = st.error
    /\ last' = st.last
    /\ trail' = (trail \/ (last = "yield" /\ st.last \in {"skip", "unexpected"}))
    /\ UNCHANGED <<origin, tokens, namespaces, forgiving, relative, qres>>

(* Lines 28-33: the first selector is parsed and yielded, or the parse     *)
(* ends.                                                                   *)
First ==
    /\ pc = "first"
    /\ Become(FirstStep(tokens, namespaces, forgiving, relative))

(* Lines 35-37: the input is exhausted.                                    *)
LoopEnd ==
    /\ pc = "loop"
    /\ Peek(tokens, pos) = NoTok
    /\ Become(LoopStep(tokens, namespaces, forgiving, relative,
                       ParseState(pc, pos, produced, error, last)))

(* Lines 38-43: a comma, and the selector after it.                        *)
LoopComma ==
    /\ pc = "loop"
    /\ Is(Peek(tokens, pos), ",")
    /\ Become(LoopStep(tokens, namespaces, forgiving, relative,
                       ParseState(pc, pos, produced, error, last)))

(* A variant of LoopOther that looks at the token without consuming it:   *)
(* C10 does not hold of it.                                                *)
LoopOtherPeeking ==
    /\ pc = "loop"
    /\ Peek(tokens, pos) # NoTok
    /\ ~Is(Peek(tokens, pos), ",")
    /\ Become([LoopStep(tokens, namespaces, forgiving, relative,
                        ParseState(pc, pos, produced, error, last))
                  EXCEPT !.pos = pos])

(* Lines 44-46: any other token.                                           *)
LoopOther ==
    /\ pc = "loop"
    /\ Peek(tokens, pos) # NoTok
    /\ ~Is(Peek(tokens, pos), ",")
    /\ Become(LoopStep(tokens, namespaces, forgiving, relative,
                       ParseState(pc, pos, produced, error, last)))

Next == First \/ LoopEnd \/ LoopComma \/ LoopOther

Spec == Init /\ [][Next]_vars

(* The generator has not ended: exactly the states in which a step of Next *)
(* is possible.                                                            *)
Running == pc \in {"first", "loop"}

(* The consumer keeps iterating the generator: weak fairness of Next,      *)
(* WF_vars(Next), with ENABLED <<Next>>_vars written out as Running.       *)
FairSpec == Spec /\ ([]<>(~Running) \/ []<><<Next>>_vars)

--------------------------------------------------------------------------
(* parse_qualified_name on its own: the input is a short token sequence,   *)
(* a namespace mapping and the is_attribute flag.                          *)

NamespaceMappings == {NoNamespaces, SvgNamespaces, DefaultNamespaces}

InitQN ==
    /\ origin \in {[family |-> "qname", is_attribute |-> a] : a \in BOOLEAN}
    /\ tokens \in SeqsUpTo(NameTokens, 0, MaxNameLen)
    /\ namespaces \in NamespaceMappings
    /\ forgiving = FALSE
    /\ relative = FALSE
    /\ pc = "qname"
    /\ pos = 1
    /\ produced = <<>>
    /\ error = NoError
    /\ last = "none"
    /\ trail = FALSE
    /\ qres = NoError

Resolve ==
    /\ pc = "qname"
    /\ qres' = ParseQualifiedName(tokens, pos, namespaces, origin.is_attribute)
    /\ pc' = "resolved"
    /\ pos' = qres'.pos
    /\ UNCHANGED <<origin, tokens, namespaces, forgiving, relative, produced,
                   error, last, trail>>

NextQN == Resolve

SpecQN == InitQN /\ [][NextQN]_vars

--------------------------------------------------------------------------
(* The claims.                                                             *)

Finished == pc \in {"done", "error"}

(* What a branch yields when parse() is given the branch alone, in the     *)
(* mode of the run: its selectors, none when it fails.                     *)
SelectorsOf(parsed) == IF parsed.kind = "ok" THEN parsed.sels ELSE <<>>

Alone(branch) ==
    SelectorsOf(ParseAll(branch, namespaces, forgiving, relative))

RECURSIVE Survivors(_)
(* The selectors of the branches that parse on their own, in input order.  *)
Survivors(branches) ==
    IF branches = <<>> THEN <<>>
    ELSE Alone(branches[1]) \o Survivors(Tail(branches))

(* C1: in forgiving mode the selectors parse() produces for a              *)
(* comma-separated list are exactly those of the branches that parse on    *)
(* their own, in input order, wherever the failing branches are and        *)
(* whatever they consumed.                                                 *)
C1_ForgivingKeepsEveryValidBranch ==
    (origin.family = "list" /\ forgiving /\ pc = "done")
        => produced = Survivors(origin.branches)

(* C4: a parse that fails, fails with a SelectorError, at every grammar    *)
(* position, also when the input ends where a token is required.           *)
C4_EveryFailureIsSelectorError ==
    pc = "error" => error.kind = "SelectorError"

(* How a branch of a list fares on its own: "fails", "trails" (it parses   *)
(* and a token that is no comma follows) or "clean".                       *)
Fate(branch, r) ==
    IF r.kind # "ok" THEN "fails"
    ELSE IF r.pos <= Len(branch) THEN "trails"
    ELSE "clean"

FateOf(branch) ==
    Fate(branch, ParseSelector(branch, 1, namespaces, relative))

SelectorOf(branch) == ParseSelector(branch, 1, namespaces, relative).sel

(* The first branch that is not clean, 0 when every branch is.             *)
FirstBad(branches) ==
    IF \A i \in 1..Len(branches) : FateOf(branches[i]) = "clean" THEN 0
    ELSE CHOOSE k \in 1..Len(branches) :
            /\ FateOf(branches[k]) # "clean"
            /\ \A i \in 1..(k - 1) : FateOf(branches[i]) = "clean"

(* C5: in strict mode the parse ends with a SelectorError at the first     *)
(* branch k that fails, or that parses and is followed by a token that is  *)
(* neither a comma nor the end; the selectors produced are those of the    *)
(* branches 1..k-1 (1..k when branch k parsed), none of a later branch.    *)
C5_StrictStopsAtFirstError ==
    (origin.family = "list" /\ ~forgiving /\ Finished) =>
        LET branches == origin.branches
            k == FirstBad(branches)
            kept == IF k = 0 THEN Len(branches)
                    ELSE IF FateOf(branches[k]) = "fails" THEN k - 1
                    ELSE k
        IN  /\ produced = [i \in 1..kept |-> SelectorOf(branches[i])]
            /\ k = 0 => pc = "done"
            /\ k # 0 => pc = "error" /\ error.kind = "SelectorError"

(* The branch `:not(?)`: a negation whose only argument is invalid.        *)
InvalidNot == <<Lit(":"), Func("not", <<Lit("?")>>)>>

(* A strict parse of `:is(...)`, `:where(...)` or `:has(...)` whose        *)
(* arguments hold a `:not()` with an invalid branch.                       *)
NotInsideForgiving ==
    /\ origin.family = "nested"
    /\ origin.name \in {"is", "where", "has"}
    /\ \E i \in 1..Len(origin.args) : origin.args[i] = InvalidNot
    /\ ~forgiving

(* The selectors an argument branch yields when parsed alone as an         *)
(* argument of the pseudo-class `name`.                                    *)
ArgumentAlone(name, branch) ==
    SelectorsOf(ParseAll(branch, namespaces, LogicalForgiving(name),
                         LogicalRelative(name)))

Yields(branch) == FateOf(branch) \in {"clean", "trails"}

IsPseudo(compound) == compound \in {PseudoBefore, LegacyAfter}

(* The first compound of the chain that ends in a pseudo-element, 0 when   *)
(* none does.                                                              *)
FirstPseudo(compounds) ==
    IF \A i \in 1..Len(compounds) : ~IsPseudo(compounds[i]) THEN 0
    ELSE CHOOSE i \in 1..Len(compounds) :
            /\ IsPseudo(compounds[i])
            /\ \A j \in 1..(i - 1) : ~IsPseudo(compounds[j])

IsSignificant(tok) == tok.type \notin {"whitespace", "comment"}

(* The tree of a yielded selector.                                         *)
TreeOf(selector) ==
    IF selector.kind = "RelativeSelector"
    THEN selector.selector.parsed_tree
    ELSE selector.parsed_tree

RECURSIVE Compounds(_)
(* How many compounds a tree joins.                                        *)
Compounds(tree) ==
    IF tree.kind = "CombinedSelector" THEN Compounds(tree.left) + 1 ELSE 1

(* A chain whose compound i < n ends in a pseudo-element.                  *)
PseudoThenCombinator ==
    /\ origin.family = "chain"
    /\ ~forgiving
    /\ FirstPseudo(origin.compounds) \in 1..(Len(origin.compounds) - 1)

(* C6: a strict parse in which a compound ending in a pseudo-element is    *)
(* followed by a combinator and a further compound fails with a            *)
(* SelectorError whose token is the first token after the pseudo-element   *)
(* that is neither whitespace nor a comment; the selector yielded before   *)
(* ends at the pseudo-element, and the loop of parse_selector never goes   *)
(* on to combine a tree that carries a pseudo-element.                     *)
C6_NoCombinatorAfterPseudoElement ==
    /\ PseudoThenCombinator =>
        LET i == FirstPseudo(origin.compounds)
            rest == origin.seps[i] \o origin.compounds[i + 1]
        IN  /\ pc # "first" =>
                /\ Len(produced) = 1
                /\ PseudoElementOf(produced[1]) # Null
                /\ Compounds(TreeOf(produced[1])) = i
            /\ Finished =>
                /\ pc = "error"
                /\ error.kind = "SelectorError"
                /\ error.tok = Head(SelectSeq(rest, IsSignificant))
    /\ \A p \in 1..(Len(tokens) + 1) :
          SelectorIter(tokens, p, namespaces, relative, " ",
                       CompoundSelector(<<>>), "before").done

C6_Witness ==
    /\ PseudoThenCombinator
    /\ origin.compounds[1] = PseudoBefore
    /\ origin.seps[1] = <<WS, Lit(">"), WS>>
    /\ pc = "error"
    /\ error.tok = Lit(">")
    /\ Len(produced) = 1

(* The combinator a separator of the pool spells.                          *)
CombinatorOf(sep) ==
    IF \E i \in 1..Len(sep) : IsIn(sep[i], COMBINATORS)
    THEN (CHOOSE t \in {sep[i] : i \in 1..Len(sep)} :
              IsIn(t, COMBINATORS)).value
    ELSE " "

CompoundOf(compound) == ParseCompoundSelector(compound, 1, namespaces).sel

RECURSIVE LeftDeep(_, _, _)
(* Combined(...Combined(Combined(c1, k1, c2), k2, c3)..., k(n-1), cn)      *)
LeftDeep(compounds, seps, n) ==
    IF n = 1 THEN CompoundOf(compounds[1])
    ELSE CombinedSelector(LeftDeep(compounds, seps, n - 1),
                          CombinatorOf(seps[n - 1]),
                          CompoundOf(compounds[n]))

RECURSIVE IsLeftDeep(_)
(* Every right child is a single compound.                                 *)
IsLeftDeep(tree) ==
    \/ tree.kind = "CompoundSelector"
    \/ /\ tree.kind = "CombinedSelector"
       /\ tree.right.kind = "CompoundSelector"
       /\ IsLeftDeep(tree.left)

(* A chain no compound of which, but perhaps the last, ends in a           *)
(* pseudo-element: all of it is one selector.                              *)
WholeChain ==
    /\ origin.family = "chain"
    /\ FirstPseudo(origin.compounds) \in {0, Len(origin.compounds)}

(* C7: combinators associate to the left.  The selector parsed from the    *)
(* compounds c1..cn joined by the combinators k1..k(n-1) is the left-deep  *)
(* tree over them, a separator with whitespace around an explicit          *)
(* combinator gives that combinator alone, and the right child of every    *)
(* CombinedSelector is a single compound.                                  *)
C7_CombinatorsAssociateLeft ==
    /\ (WholeChain /\ pc # "first") =>
        /\ Len(produced) = 1
        /\ TreeOf(produced[1]) =
              LeftDeep(origin.compounds, origin.seps, Len(origin.compounds))
    /\ \A i \in 1..Len(produced) : IsLeftDeep(TreeOf(produced[i]))

C7_Witness ==
    /\ WholeChain
    /\ Len(origin.compounds) = 3
    /\ origin.seps = << <<WS>>, <<WS, Lit(">"), WS>> >>
    /\ pc = "done"
    /\ TreeOf(produced[1]).combinator = ">"
    /\ TreeOf(produced[1]).left.combinator = " "
    /\ TreeOf(produced[1]).left.kind = "CombinedSelector"

(* The specificity the composition rules give a node, computed from the   *)
(* leaves: nothing stored in the tree is read.                             *)
LexLeq(x, y) ==
    \/ x[1] < y[1]
    \/ x[1] = y[1] /\ x[2] < y[2]
    \/ x[1] = y[1] /\ x[2] = y[2] /\ x[3] <= y[3]

LexMax(S) == CHOOSE m \in S : \A x \in S : LexLeq(x, m)

RECURSIVE Rule(_)
RECURSIVE RuleSum(_)

RuleSum(nodes) ==
    IF nodes = <<>> THEN <<0, 0, 0>>
    ELSE LET x == Rule(Head(nodes))
             y == RuleSum(Tail(nodes))
         IN  <<x[1] + y[1], x[2] + y[2], x[3] + y[3]>>

Rule(node) ==
    CASE node.kind = "IDSelector" -> <<1, 0, 0>>
      [] node.kind \in {"ClassSelector", "AttributeSelector",
                        "PseudoClassSelector",
                        "FunctionalPseudoClassSelector"} -> <<0, 1, 0>>
      [] node.kind = "LocalNameSelector" -> <<0, 0, 1>>
      [] node.kind = "NamespaceSelector" -> <<0, 0, 0>>
      [] node.kind = "SpecificityAdjustmentSelector" -> <<0, 0, 0>>
      [] node.kind \in {"MatchesAnySelector", "NegationSelector",
                        "RelationalSelector"} ->
            IF node.selector_list = <<>> THEN <<0, 0, 0>>
            ELSE LexMax({Rule(node.selector_list[i]) :
                            i \in 1..Len(node.selector_list)})
      [] node.kind = "CompoundSelector" -> RuleSum(node.simple_selectors)
      [] node.kind = "CombinedSelector" -> RuleSum(<<node.left, node.right>>)
      [] node.kind = "RelativeSelector" -> Rule(node.selector)
      [] node.kind = "Selector" ->
            IF node.pseudo_element = Null THEN Rule(node.parsed_tree)
            ELSE LET x == Rule(node.parsed_tree)
                 IN  <<x[1], x[2], x[3] + 1>>

RECURSIVE Coherent(_)
(* Every node below `node` that answers .specificity answers what the      *)
(* rules give, in non-negative integers.                                   *)
Coherent(node) ==
    /\ Specificity(node) = Rule(node)
    /\ \A k \in 1..3 : Specificity(node)[k] \in Nat
    /\ CASE node.kind \in {"Selector"} -> Coherent(node.parsed_tree)
         [] node.kind = "RelativeSelector" -> Coherent(node.selector)
         [] node.kind = "CombinedSelector" ->
               Coherent(node.left) /\ Coherent(node.right)
         [] node.kind = "CompoundSelector" ->
               \A i \in 1..Len(node.simple_selectors) :
                   Coherent(node.simple_selectors[i])
         [] node.kind \in {"MatchesAnySelector", "NegationSelector",
                           "RelationalSelector",
                           "SpecificityAdjustmentSelector"} ->
               \A i \in 1..Len(node.selector_list) :
                   Coherent(node.selector_list[i])
         [] OTHER -> TRUE

(* C8: the specificity of every parsed selector, and of every node of its  *)
(* tree, follows the composition rules: sums for compounds and combined    *)
(* selectors, the lexicographic maximum (or zero) for :is(), :not() and    *)
(* :has(), zero for :where(), one more in the third component for a        *)
(* pseudo-element; all components are non-negative integers.               *)
C8_SpecificityFollowsTheRules ==
    \A i \in 1..Len(produced) : Coherent(produced[i])

C8_Witness ==
    /\ origin.family = "nested"
    /\ origin.name = "is"
    /\ origin.args = <<ClassA, Rich>>
    /\ pc = "done"
    /\ produced[1].specificity = <<1, 3, 1>>

(* The first tokens of the name being resolved.                            *)
T(i) == Peek(tokens, i)

IsName(tok) == tok.type = "ident"

Resolved(namespace, local) ==
    /\ qres.kind = "ok"
    /\ qres.namespace = namespace
    /\ qres.local = local

Rejected == qres.kind = "SelectorError"

IsAttribute == origin.is_attribute

DefaultNamespace ==
    IF Null \in DOMAIN namespaces THEN namespaces[Null] ELSE Null

(* C9: prefix|name resolves to the URI the prefix maps to, and is rejected *)
(* when the prefix is not mapped; |name resolves to the empty string;      *)
(* *|name to the unspecified namespace; a bare name to the default         *)
(* namespace (null when none is declared) for a type selector and to the   *)
(* empty string for an attribute; a wildcard local name is accepted for a  *)
(* type selector and rejected for an attribute.                            *)
C9_QualifiedNameResolution ==
    pc = "resolved" =>
        /\ (IsName(T(1)) /\ Is(T(2), "|") /\ IsName(T(3))) =>
              IF T(1).value \in DOMAIN namespaces
              THEN Resolved(namespaces[T(1).value], <<T(3).value, T(3).lower>>)
              ELSE Rejected
        /\ (IsName(T(1)) /\ Is(T(2), "|") /\ T(1).value \notin DOMAIN namespaces)
              => Rejected
        /\ (Is(T(1), "|") /\ IsName(T(2))) =>
              Resolved("", <<T(2).value, T(2).lower>>)
        /\ (Is(T(1), "*") /\ Is(T(2), "|") /\ IsName(T(3))) =>
              Resolved(Null, <<T(3).value, T(3).lower>>)
        /\ (IsName(T(1)) /\ ~Is(T(2), "|")) =>
              Resolved(IF IsAttribute THEN "" ELSE DefaultNamespace,
                       <<T(1).value, T(1).lower>>)
        /\ (Is(T(1), "*") /\ ~Is(T(2), "|")) =>
              IF IsAttribute THEN Rejected
              ELSE Resolved(DefaultNamespace, Wildcard)
        /\ (Is(T(1), "|") /\ Is(T(2), "*")) =>
              IF IsAttribute THEN Rejected ELSE Resolved("", Wildcard)
        /\ (Is(T(1), "*") /\ Is(T(2), "|") /\ Is(T(3), "*")) =>
              IF IsAttribute THEN Rejected ELSE Resolved(Null, Wildcard)
        /\ (IsName(T(1)) /\ Is(T(2), "|") /\ Is(T(3), "*")
            /\ T(1).value \in DOMAIN namespaces) =>
              IF IsAttribute THEN Rejected
              ELSE Resolved(namespaces[T(1).value], Wildcard)
        /\ qres.kind = "ok" => qres.namespace \in
              {Null, ""} \cup {namespaces[k] : k \in DOMAIN namespaces}

C9_Witness ==
    /\ pc = "resolved"
    /\ IsAttribute
    /\ tokens = <<Ident("svg"), Lit("|"), Ident("a")>>
    /\ qres.kind = "ok"
    /\ qres.namespace = "http://www.w3.org/2000/svg"
    /\ qres.local = <<"a", "a">>

(* The top-level commas of the input.                                      *)
Commas == Cardinality({i \in 1..Len(tokens) : Is(tokens[i], ",")})

(* The token streams of the run: the input and the nested token lists of   *)
(* its functions and blocks.                                               *)
Streams == {tokens} \cup {tokens[i].content : i \in 1..Len(tokens)}

(* An iteration entered at position p left the loop or consumed a token.   *)
Advances(it, p) == it.done \/ it.pos > p

(* Wherever in the input they are entered, the loops of TokenStream.skip,  *)
(* of parse_compound_selector and of parse_selector end or consume a       *)
(* token.  The input never changes, so this is stated of the run's first   *)
(* state.                                                                  *)
InnerLoopsAdvance ==
    \A toks \in Streams : \A p \in 1..(Len(toks) + 1) :
        /\ \A skip_types \in {{"whitespace"}, {"comment"},
                              {"comment", "whitespace"}} :
              Advances(SkipIter(toks, p, skip_types), p)
        /\ Advances(CompoundIter(toks, p, namespaces, <<>>), p)
        /\ Advances(SelectorIter(toks, p, namespaces, relative, " ",
                                 CompoundSelector(<<>>), Null), p)

(* C10: parse() terminates.  The cursor never moves back, an iteration of  *)
(* the top-level loop that does not end the parse consumes a token, so do  *)
(* the iterations of the inner loops, the generator ends (input exhausted  *)
(* or an error), and it yields at most one selector more than the input    *)
(* has top-level commas.                                                   *)
C10_ParseTerminates ==
    /\ InnerLoopsAdvance
    /\ [][/\ pos' >= pos
          /\ (pc = "loop" /\ pc' = "loop") => pos' > pos]_vars
    /\ [](Len(produced) <= Commas + 1)
    /\ <>Finished

C10_Witness ==
    /\ origin.family = "list"
    /\ forgiving
    /\ pc = "done"
    /\ trail
    /\ Commas = 2
    /\ Len(produced) = 3
    /\ pos = Len(tokens) + 1

==========================================================================
